---- MODULE Spec2Model ----
(***************************************************************************)
(* grafana-rrd-server (rrdserver.go): the search cache and its background  *)
(* refresh, the rrdcached fetch path with retry and reconnect, and the     *)
(* /query, /search and /ls handlers.                                       *)
(*                                                                         *)
(* Strings are sequences of one-character strings, so that the string      *)
(* operations of the code (Replace, TrimRight, LastIndex, HasPrefix, ...)  *)
(* are computed and not assumed.  Times are whole seconds.  Sample values  *)
(* are counted in halves (F(5) stands for 2.5); NaN is a value of its own. *)
(***************************************************************************)
EXTENDS Integers, Sequences, FiniteSets, TLC

\* ------------------------------------------------------------------------
\* Bounds of the exploration
\* ------------------------------------------------------------------------
MaxRefresh == 2          \* refresh cycles of the background goroutine
MaxTime == 4             \* request times range over 0..MaxTime

NIL == "nil"              \* a nil *rrdcached.Client
NilSlice == <<>>          \* a nil []string; other slices are <<n>>, n an index of heap

\* float64 values: a number of halves, or NaN
F(v) == [nan |-> FALSE, v |-> v]

NaN == [nan |-> TRUE, v |-> 0]

IsNaN(x) == x.nan

\* the product without the multiplier
Times64Unscaled(k, x) == x

\* float64(k) * x
Times64(k, x) == IF x.nan THEN NaN ELSE F(k * x.v)

\* ------------------------------------------------------------------------
\* package strings / path/filepath, as far as the code uses them
\* ------------------------------------------------------------------------
HasPrefix(s, p) == Len(s) >= Len(p) /\ SubSeq(s, 1, Len(p)) = p

HasSuffix(s, p) == Len(s) >= Len(p) /\ SubSeq(s, Len(s) - Len(p) + 1, Len(s)) = p

TrimPrefix(s, p) == IF HasPrefix(s, p) THEN SubSeq(s, Len(p) + 1, Len(s)) ELSE s

TrimSuffix(s, p) == IF HasSuffix(s, p) THEN SubSeq(s, 1, Len(s) - Len(p)) ELSE s

Contains(s, sub) == \E i \in 1..(Len(s) - Len(sub) + 1) : SubSeq(s, i, i + Len(sub) - 1) = sub

\* strings.Replace(s, old, new, n); n < 0 replaces every occurrence
RECURSIVE Replace(_, _, _, _)
Replace(s, old, new, n) ==
    IF n = 0 \/ Len(s) < Len(old) THEN s
    ELSE IF HasPrefix(s, old)
         THEN new \o Replace(SubSeq(s, Len(old) + 1, Len(s)), old, new, n - 1)
         ELSE <<Head(s)>> \o Replace(Tail(s), old, new, n)

\* strings.TrimRight(s, c) for a one-character cutset
RECURSIVE TrimRight(_, _)
TrimRight(s, c) ==
    IF s # <<>> /\ s[Len(s)] = c THEN TrimRight(SubSeq(s, 1, Len(s) - 1), c) ELSE s

\* strings.LastIndex(s, c) for a one-character c, 1-based; 0 when absent
\* (Go: 0-based, -1 when absent)
LastIndex(s, c) ==
    IF \E i \in 1..Len(s) : s[i] = c
    THEN CHOOSE i \in 1..Len(s) : s[i] = c /\ \A j \in (i + 1)..Len(s) : s[j] # c
    ELSE 0

\* filepath.Rel(base, path) for a path below base
Rel(base, path) == TrimPrefix(path, TrimRight(base, "/") \o <<"/">>)

\* ------------------------------------------------------------------------
\* Configuration (flags of SetArgs)
\* ------------------------------------------------------------------------
VARIABLE config          \* config.Server: the flags -r and -d

\* -r: the archive directory, given with or without a trailing slash
RrdPaths == {<<"d", "/">>, <<"d">>}

\* -d: the rrdcached address; empty when the flag is not given
RrdCachedAddrs == {<<>>, <<"u", "n", "i", "x", ":", "s">>}

RrdPath == config.RrdPath
Multiplier == 10
Step == 1

RRD == <<".", "r", "r", "d">>

\* ------------------------------------------------------------------------
\* The archive storage: two archives, a copy of the second one under
\* another name, and one other file below RrdPath
\* ------------------------------------------------------------------------
FileA == <<"d", "/", "a", ".", "r", "r", "d">>
FileB == <<"d", "/", "b", ".", "r", "r", "d">>
FileO == <<"d", "/", "b", ".", "r", "r", "d", ".", "o">>
FileN == <<"d", "/", "n">>

\* what filepath.Walk hands to the callback, in lexical order
WalkEntries ==
    << [path |-> <<"d", "/">>, name |-> <<"d">>, isDir |-> TRUE],
       [path |-> FileA, name |-> <<"a", ".", "r", "r", "d">>, isDir |-> FALSE],
       [path |-> FileB, name |-> <<"b", ".", "r", "r", "d">>, isDir |-> FALSE],
       [path |-> FileO, name |-> <<"b", ".", "r", "r", "d", ".", "o">>, isDir |-> FALSE],
       [path |-> FileN, name |-> <<"n">>, isDir |-> FALSE] >>

Archives == {FileA, FileB}

\* datasource names of an archive, in column order
DsNames(f) == IF f = FileA THEN << <<"x">>, <<"y">> >> ELSE << <<"y">> >>

LastUpdate(f) == IF f = FileA THEN 2 ELSE 3

\* the stored sample of column c (0-based) at time t
Sample(f, c, t) ==
    IF f = FileA
    THEN IF c = 0 THEN (IF t = 1 THEN NaN ELSE F(t + 1))
                  ELSE (IF t = 2 THEN NaN ELSE F(5))
    ELSE IF t = 0 THEN NaN ELSE F(2 * t + 1)

Range(s) == {s[i] : i \in 1..Len(s)}

Perms(S) == {p \in [1..Cardinality(S) -> S] : \A i, j \in 1..Cardinality(S) : p[i] = p[j] => i = j}

\* ------------------------------------------------------------------------
\* Info of the two backends
\* ------------------------------------------------------------------------
DsKey(ds, suffix) == <<"d", "s", "[">> \o ds \o suffix

IndexSuffix == <<"]", ".", "i", "n", "d", "e", "x">>

TypeSuffix == <<"]", ".", "t", "y", "p", "e">>

LastUpdateKey == <<"l", "a", "s", "t", "_", "u", "p", "d", "a", "t", "e">>

\* rrdcachedClient.Info: a list of key/value lines; counters are int64
RECURSIVE DsInfoLines(_, _)
DsInfoLines(names, i) ==
    IF i > Len(names) THEN <<>>
    ELSE << [Key |-> DsKey(names[i], IndexSuffix), Value |-> i - 1, Type |-> "int64"],
            [Key |-> DsKey(names[i], TypeSuffix), Value |-> "GAUGE", Type |-> "string"] >>
         \o DsInfoLines(names, i + 1)

CachedInfo(f) ==
    << [Key |-> LastUpdateKey, Value |-> LastUpdate(f), Type |-> "int64"] >>
    \o DsInfoLines(DsNames(f), 1)

\* rrd.Info: a map with "last_update" and the "ds.index" map
LocalInfo(f) ==
    [last_update |-> LastUpdate(f),
     ds_index |-> {[name |-> DsNames(f)[i], index |-> i - 1] : i \in 1..Len(DsNames(f))}]

\* ------------------------------------------------------------------------
\* State
\* ------------------------------------------------------------------------
Readers == {"r1", "r2"}

Tasks == {"q1", "q2"}

VARIABLES
    rrdcachedClient,   \* NIL, or the state of the client it points to: "open" or "closed"
    rrdcachedMutex,    \* "free" or the task holding it
    variant,           \* history: the backend main selected at startup
    inputs,            \* which request bodies the handlers may receive: see InputSet
    conns,             \* history: the connections to the daemon that NewClient made and
                       \* Close() has not closed
    h,                 \* per /search and /ls handler: its position and locals
    q,                 \* per /query handler: its position and locals
    heap,              \* slice backing stores: reference -> list of identifiers
    items,             \* SearchCache.items: NIL or a reference
    m,                 \* SearchCache.m: "free" or its holder
    upc,               \* position of the refresh goroutine
    newItems,          \* Update's local newItems
    walkIdx,           \* next entry of the walk
    refreshes,         \* Update() calls started
    rpc,               \* position of each Get() caller
    held,              \* the list each caller was handed last
    complete,          \* history: the lists finished refreshes swapped in
    startItems,        \* history: items and its contents when Update() began
    infoLog            \* history: the archives the current walk called Info on, and how it went

cacheVars == <<heap, items, m, upc, newItems, walkIdx, refreshes, rpc, held, complete, startItems, infoLog>>

queryVars == <<config, rrdcachedClient, rrdcachedMutex, variant, inputs, conns, q, h>>

vars == <<queryVars, cacheVars>>

ListOf(ref) == IF ref = NilSlice THEN <<>> ELSE heap[ref[1]]

\* ------------------------------------------------------------------------
\* SearchCache
\* ------------------------------------------------------------------------
NewSearchCache == NilSlice

InitCache ==
    /\ heap = <<>>
    /\ items = NewSearchCache
    /\ m = "free"
    /\ upc = "begin"
    /\ newItems = NilSlice
    /\ walkIdx = 1
    /\ refreshes = 0
    /\ rpc = [r \in Readers |-> "idle"]
    /\ held = [r \in Readers |-> NilSlice]
    /\ complete = {}
    /\ startItems = [ref |-> NilSlice, list |-> <<>>]
    /\ infoLog = <<>>

\* Get(): w.m.Lock()
GetLock(r) ==
    /\ rpc[r] = "idle"
    /\ m = "free"
    /\ m' = r
    /\ rpc' = [rpc EXCEPT ![r] = "locked"]
    /\ UNCHANGED <<queryVars, heap, items, upc, newItems, walkIdx, refreshes, held, complete, startItems, infoLog>>

\* Get(): return w.items, then the deferred Unlock
GetReturn(r) ==
    /\ rpc[r] = "locked"
    /\ held' = [held EXCEPT ![r] = items]
    /\ m' = "free"
    /\ rpc' = [rpc EXCEPT ![r] = "idle"]
    /\ UNCHANGED <<queryVars, heap, items, upc, newItems, walkIdx, refreshes, complete, startItems, infoLog>>

\* Update() collecting into the list it publishes at once
UpdateBeginInPlace ==
    /\ upc = "begin"
    /\ refreshes < MaxRefresh
    /\ refreshes' = refreshes + 1
    /\ heap' = Append(heap, <<>>)
    /\ newItems' = <<Len(heap) + 1>>
    /\ items' = <<Len(heap) + 1>>
    /\ walkIdx' = 1
    /\ startItems' = [ref |-> items, list |-> ListOf(items)]
    /\ infoLog' = <<>>
    /\ upc' = "walk"
    /\ UNCHANGED <<queryVars, m, rpc, held, complete>>

\* an Update() started by a timer, whether or not the last one has returned
UpdateBeginOnTimer ==
    /\ upc \in {"begin", "walk"}
    /\ refreshes < MaxRefresh
    /\ refreshes' = refreshes + 1
    /\ heap' = Append(heap, <<>>)
    /\ newItems' = <<Len(heap) + 1>>
    /\ walkIdx' = 1
    /\ startItems' = [ref |-> items, list |-> ListOf(items)]
    /\ infoLog' = <<>>
    /\ upc' = "walk"
    /\ UNCHANGED <<queryVars, items, m, rpc, held, complete>>

\* Update(): newItems := []string{}
UpdateBegin ==
    /\ upc = "begin"
    /\ refreshes < MaxRefresh
    /\ refreshes' = refreshes + 1
    /\ heap' = Append(heap, <<>>)
    /\ newItems' = <<Len(heap) + 1>>
    /\ walkIdx' = 1
    /\ startItems' = [ref |-> items, list |-> ListOf(items)]
    /\ infoLog' = <<>>
    /\ upc' = "walk"
    /\ UNCHANGED <<queryVars, items, m, rpc, held, complete>>

\* the identifier prefix of an archive path
FName(path) == Replace(Replace(Rel(RrdPath, path), RRD, <<>>, 1), <<"/">>, <<":">>, -1)

\* the names the callback collects from an rrdcached Info response
CachedDsIndex(infoRes) ==
    {TrimSuffix(TrimPrefix(infoRes[i].Key, <<"d", "s", "[">>), IndexSuffix) :
        i \in {k \in 1..Len(infoRes) : /\ HasPrefix(infoRes[k].Key, <<"d", "s", "[">>)
                                       /\ HasSuffix(infoRes[k].Key, IndexSuffix)}}

LocalDsIndex(infoRes) == {e.name : e \in infoRes.ds_index}

\* a callback that returns the error of Info to the walk
WalkVisitInfoAborts ==
    /\ upc = "walk"
    /\ walkIdx <= Len(WalkEntries)
    /\ LET e == WalkEntries[walkIdx]
           dsIndex == IF rrdcachedClient # NIL THEN CachedDsIndex(CachedInfo(e.path))
                      ELSE LocalDsIndex(LocalInfo(e.path))
       IN  \/ /\ e.isDir \/ ~Contains(e.name, RRD)
              /\ UNCHANGED <<heap, infoLog, upc>>
           \/ /\ ~e.isDir /\ Contains(e.name, RRD)
              /\ \/ /\ heap' = heap
                    /\ upc' = "aborted"
                    /\ infoLog' = Append(infoLog, [path |-> e.path, ok |-> FALSE])
                 \/ /\ rrdcachedClient # "closed"
                    /\ upc' = upc
                    /\ infoLog' = Append(infoLog, [path |-> e.path, ok |-> TRUE])
                    /\ \E p \in Perms(dsIndex) :
                          heap' = [heap EXCEPT ![newItems[1]] =
                                      @ \o [i \in 1..Cardinality(dsIndex) |-> FName(e.path) \o <<":">> \o p[i]]]
    /\ walkIdx' = walkIdx + 1
    /\ UNCHANGED <<queryVars, items, m, newItems, refreshes, rpc, held, complete, startItems>>

\* the walk callback on one entry: skip, Info failure, or append one
\* identifier per datasource (map iteration order is arbitrary)
WalkVisit ==
    /\ upc = "walk"
    /\ walkIdx <= Len(WalkEntries)
    /\ LET e == WalkEntries[walkIdx]
           dsIndex == IF rrdcachedClient # NIL THEN CachedDsIndex(CachedInfo(e.path))
                      ELSE LocalDsIndex(LocalInfo(e.path))
       IN  \/ /\ e.isDir \/ ~Contains(e.name, RRD)
              /\ UNCHANGED <<heap, infoLog>>
           \/ /\ ~e.isDir /\ Contains(e.name, RRD)
              /\ \/ /\ heap' = heap                    \* Info failed: logged, skipped
                    /\ infoLog' = Append(infoLog, [path |-> e.path, ok |-> FALSE])
                 \/ /\ rrdcachedClient # "closed"
                    /\ infoLog' = Append(infoLog, [path |-> e.path, ok |-> TRUE])
                    /\ \E p \in Perms(dsIndex) :
                          heap' = [heap EXCEPT ![newItems[1]] =
                                      @ \o [i \in 1..Cardinality(dsIndex) |-> FName(e.path) \o <<":">> \o p[i]]]
    /\ walkIdx' = walkIdx + 1
    /\ UNCHANGED <<queryVars, items, m, upc, newItems, refreshes, rpc, held, complete, startItems>>

\* a failed walk that still stores what it collected
WalkErrorStore ==
    /\ upc = "walk"
    /\ walkIdx <= Len(WalkEntries)
    /\ upc' = "aborted"
    /\ items' = newItems
    /\ UNCHANGED <<queryVars, heap, m, newItems, walkIdx, refreshes, rpc, held, complete, startItems, infoLog>>

\* the walk hands an error to the callback, which returns it; Update logs
\* it and returns without touching w.items
WalkError ==
    /\ upc = "walk"
    /\ walkIdx <= Len(WalkEntries)
    /\ upc' = "aborted"
    /\ UNCHANGED <<queryVars, heap, items, m, newItems, walkIdx, refreshes, rpc, held, complete, startItems, infoLog>>

\* Update(): the walk returned nil; w.m.Lock()
UpdateLock ==
    /\ upc = "walk"
    /\ walkIdx > Len(WalkEntries)
    /\ m = "free"
    /\ m' = "update"
    /\ upc' = "store"
    /\ UNCHANGED <<queryVars, heap, items, newItems, walkIdx, refreshes, rpc, held, complete, startItems, infoLog>>

\* Update(): w.items = newItems, then the deferred Unlock
UpdateStore ==
    /\ upc = "store"
    /\ items' = newItems
    /\ complete' = complete \cup {[ref |-> newItems, list |-> ListOf(newItems)]}
    /\ m' = "free"
    /\ upc' = "sleep"
    /\ UNCHANGED <<queryVars, heap, newItems, walkIdx, refreshes, rpc, held, startItems, infoLog>>

\* main: time.Sleep(SearchCache seconds), then the next Update()
UpdateSleep ==
    /\ upc \in {"sleep", "aborted"}
    /\ upc' = "begin"
    /\ UNCHANGED <<queryVars, heap, items, m, newItems, walkIdx, refreshes, rpc, held, complete, startItems, infoLog>>

NextCache ==
    \/ \E r \in Readers : GetLock(r)
    \/ \E r \in Readers : GetReturn(r)
    \/ UpdateBegin
    \/ WalkVisit
    \/ WalkError
    \/ UpdateLock
    \/ UpdateStore
    \/ UpdateSleep

\* ------------------------------------------------------------------------
\* Properties of the search cache
\* ------------------------------------------------------------------------

\* C4: every list Get() has returned is the complete list one finished
\* refresh swapped in (or the initial nil list), and it still has the
\* contents it had when that refresh finished.
C4_GetReturnsCompleteSnapshot ==
    \A r \in Readers :
        held[r] = NilSlice \/ [ref |-> held[r], list |-> ListOf(held[r])] \in complete

\* a caller holds the non-empty list of an earlier refresh while the next
\* refresh has collected entries in another list
C4_Witness ==
    /\ upc = "walk"
    /\ ListOf(newItems) # <<>>
    /\ \E r \in Readers : held[r] # NilSlice /\ held[r] # newItems /\ ListOf(held[r]) # <<>>

\* C5: after a refresh whose walk returned an error, w.items is the list it
\* was when that Update() began, with the same contents.
C5_WalkErrorKeepsSnapshot ==
    upc = "aborted" => items = startItems.ref /\ ListOf(items) = startItems.list

\* a walk failed after collecting entries, with an earlier snapshot in place
C5_Witness ==
    /\ upc = "aborted"
    /\ ListOf(newItems) # <<>>
    /\ items # NilSlice
    /\ ListOf(items) # ListOf(newItems)

\* ------------------------------------------------------------------------
\* The two backends' Fetch, and zglob.Glob
\* ------------------------------------------------------------------------
NilErr == <<>>

ErrTimeout == <<"i", "/", "o", " ", "t", "i", "m", "e", "o", "u", "t">>

ErrConnection == <<"c", "o", "n", "n", "e", "c", "t", "i", "o", "n", " ", "r", "e", "s", "e", "t">>

ErrOther == <<"E", "R", "R">>

FetchErrors == {ErrTimeout, ErrConnection, ErrOther}

\* the errors the daemon gives behind each value of inputs: with two
\* concurrent handlers, one error of either kind
DaemonErrors(tag) == IF tag = "daemon" THEN {ErrConnection, ErrOther} ELSE FetchErrors

\* *float64
NullPtr == [null |-> TRUE, val |-> NaN]

PtrTo(x) == [null |-> FALSE, val |-> x]

\* rows at start, start+Step, ..., up to end; one value per datasource
LocalRows(f, start, end) ==
    [i \in 1..((end - start) \div Step + 1) |->
        [c \in 1..Len(DsNames(f)) |-> Sample(f, c - 1, start + (i - 1) * Step)]]

\* the same rows as rrdcached returns them: a nil pointer for a missing value
CachedRows(f, start, end) ==
    [i \in 1..((end - start) \div Step + 1) |->
        [c \in 1..Len(DsNames(f)) |->
            IF IsNaN(Sample(f, c - 1, start + (i - 1) * Step)) THEN NullPtr
            ELSE PtrTo(Sample(f, c - 1, start + (i - 1) * Step))]]

NoFetch == [ok |-> FALSE, fetchData |-> <<>>, dsNames |-> <<>>, fetchStart |-> 0, fetchStep |-> 0, rowCnt |-> 0]

\* a pattern character "*" matches any run of characters other than "/"
RECURSIVE Match(_, _)
Match(pattern, name) ==
    IF pattern = <<>> THEN name = <<>>
    ELSE IF Head(pattern) = "*"
         THEN \/ Match(Tail(pattern), name)
              \/ name # <<>> /\ Head(name) # "/" /\ Match(pattern, Tail(name))
         ELSE name # <<>> /\ Head(name) = Head(pattern) /\ Match(Tail(pattern), Tail(name))

Glob(pattern) == SelectSeq(<<FileA, FileB, FileO, FileN>>, LAMBDA f : Match(pattern, f))

\* ------------------------------------------------------------------------
\* Request bodies
\* ------------------------------------------------------------------------
Times == 0..MaxTime

\* the target lists of the requests: single files, a datasource only one
\* archive has, wildcards, two targets in either order, a target without a
\* file next to one with a file, and alone
TargetLists ==
    { << <<"a", ":", "y">> >>,
      << <<"b", ":", "x">> >>,
      << <<"*", ":", "y">> >>,
      << <<"*", ":", "x">> >>,
      << <<"a", ":", "x">>, <<"b", ":", "y">> >>,
      << <<"b", ":", "y">>, <<"a", ":", "y">> >>,
      << <<"c", ":", "y">>, <<"a", ":", "x">> >>,
      << <<"c", ":", "y">> >> }

Malformed == [malformed |-> TRUE, from |-> 0, to |-> 0, targets |-> <<>>]

Requests ==
    {[malformed |-> FALSE, from |-> f, to |-> u, targets |-> ts] :
        f \in Times, u \in Times, ts \in TargetLists}

\* the request for y of every archive over the whole time range
DaemonRequest == [malformed |-> FALSE, from |-> 0, to |-> MaxTime, targets |-> << <<"*", ":", "y">> >>]

\* the request bodies behind each value of inputs
InputSet(tag) ==
    IF tag = "any" THEN Requests \cup {Malformed}
    ELSE IF tag = "daemon" THEN {DaemonRequest}
    ELSE IF tag = "one" THEN {DaemonRequest, Malformed}
    ELSE {}

\* ------------------------------------------------------------------------
\* main: backend selection
\* ------------------------------------------------------------------------
ZeroTime == -1            \* time.Time{}: before every Unix time

\* nothing has been written to the http.ResponseWriter by respondJSON
NoResponse == [json |-> "none", array |-> <<>>]

IdleTask ==
    [pc |-> "idle", from |-> ZeroTime, to |-> ZeroTime, reqTo |-> ZeroTime, targets |-> <<>>,
     ti |-> 0, ds |-> <<>>, fileNameArray |-> <<>>, fi |-> 0, filePath |-> <<>>,
     lastUpdate |-> ZeroTime, dsIndex |-> 0, start |-> ZeroTime, end |-> ZeroTime,
     attempt |-> 0, err |-> NilErr, fetchLog |-> <<>>, slept |-> 0, reconnects |-> 0,
     fetch |-> NoFetch, result |-> <<>>, status |-> 0, panic |-> "",
     observed |-> "", raced |-> FALSE, answered |-> <<>>, decoded |-> "",
     flushes |-> 0, flushErr |-> NilErr, calling |-> FALSE, response |-> NoResponse]

\* another task is inside recreateRRDCachedClient, past Close() and before
\* the new client is installed
Tearing(t) == \E u \in Tasks \ {t} : q[u].pc \in {"rNil", "rNew"}

\* history of a call on rrdcachedClient: the client it found, and whether
\* it was made while another task was tearing the client down
Use(r, t) == [r EXCEPT !.observed = rrdcachedClient, !.raced = Tearing(t)]

\* the command of a call is on the connection, and the handler is blocked
\* in the client until the call returns
Sent(r) == [r EXCEPT !.calling = TRUE]

\* main: with -d given and the daemon reachable the client is set, otherwise
\* it stays (or is reset to) nil
InitMain ==
    /\ config \in [RrdPath : RrdPaths, RrdCached : RrdCachedAddrs]
    /\ \E connected \in BOOLEAN :
          /\ rrdcachedClient = IF config.RrdCached # <<>> /\ connected THEN "open" ELSE NIL
          /\ variant = IF config.RrdCached # <<>> /\ connected THEN "Daemon" ELSE "Local"
    /\ conns = IF rrdcachedClient = "open" THEN 1 ELSE 0
    /\ rrdcachedMutex = "free"

\* ------------------------------------------------------------------------
\* query
\* ------------------------------------------------------------------------
Panic(r, reason) == [r EXCEPT !.pc = "panicked", !.panic = reason]

\* `continue` of the loop over fileNameArray
Continue(r) ==
    [r EXCEPT !.pc = "file", !.fi = @ + 1, !.lastUpdate = ZeroTime, !.dsIndex = 0,
              !.start = ZeroTime, !.end = ZeroTime, !.attempt = 0, !.err = NilErr,
              !.fetchLog = <<>>, !.slept = 0, !.reconnects = 0, !.fetch = NoFetch,
              !.observed = "", !.raced = FALSE, !.flushes = 0, !.flushErr = NilErr]

\* decoder.Decode; from, to := time.Parse(...)
QueryDecode(t) ==
    /\ q[t].pc = "idle"
    /\ \E body \in InputSet(inputs) :
          q' = [q EXCEPT ![t] =
                  IF body.malformed
                  THEN [@ EXCEPT !.pc = "done", !.status = 400, !.decoded = "error"]
                  ELSE [@ EXCEPT !.pc = "target", !.decoded = "ok", !.from = body.from, !.to = body.to,
                                 !.reqTo = body.to, !.targets = body.targets, !.ti = 1]]
    /\ UNCHANGED <<rrdcachedClient, rrdcachedMutex, variant, inputs, conns, h, config, cacheVars>>

TargetDs(target) == SubSeq(target, LastIndex(target, ":") + 1, Len(target))

\* regexp `:ds$` replaced by "", for a ds without regexp metacharacters
FileSearchPath(target) ==
    TrimRight(RrdPath, "/") \o <<"/">>
       \o Replace(TrimSuffix(target, <<":">> \o TargetDs(target)), <<":">>, <<"/">>, -1) \o RRD

\* respondJSON(w, result): json.Marshal encodes a nil slice as null and
\* any other slice as an array of its entries
RespondJSON(result) ==
    IF result = <<>> THEN [json |-> "null", array |-> <<>>] ELSE [json |-> "array", array |-> result]

\* the head of the loop over Targets: the next target's glob, or the response
QueryTarget(t) ==
    /\ q[t].pc = "target"
    /\ LET r == q[t] IN
          q' = [q EXCEPT ![t] =
                  IF r.ti > Len(r.targets)
                  THEN [r EXCEPT !.pc = "done", !.status = 200, !.response = RespondJSON(r.result)]
                  ELSE [r EXCEPT !.pc = "file", !.ds = TargetDs(r.targets[r.ti]),
                                 !.fileNameArray = Glob(FileSearchPath(r.targets[r.ti])),
                                 !.fi = 1]]
    /\ UNCHANGED <<rrdcachedClient, rrdcachedMutex, variant, inputs, conns, h, config, cacheVars>>

\* a loop over fileNameArray that answers a target without a file by an
\* entry without data points
QueryFileEmptyEntry(t) ==
    /\ q[t].pc = "file"
    /\ LET r == q[t] IN
          IF r.fi > Len(r.fileNameArray)
          THEN q' = [q EXCEPT ![t] =
                       [r EXCEPT !.pc = "target", !.ti = @ + 1, !.fetch = NoFetch,
                                 !.result = IF r.fileNameArray = <<>>
                                            THEN Append(@, [Target |-> r.targets[r.ti], DataPoints |-> <<>>])
                                            ELSE @]]
          ELSE \/ q' = [q EXCEPT ![t] = Continue(r)]
               \/ q' = [q EXCEPT ![t] =
                         [r EXCEPT !.filePath = r.fileNameArray[r.fi], !.fetch = NoFetch,
                                   !.pc = IF rrdcachedClient # NIL THEN "infoCached" ELSE "infoLocal"]]
    /\ UNCHANGED <<rrdcachedClient, rrdcachedMutex, variant, inputs, conns, h, config, cacheVars>>

\* the head of the loop over fileNameArray: os.Stat, then the choice of the
\* backend for Info
QueryFile(t) ==
    /\ q[t].pc = "file"
    /\ LET r == q[t] IN
          IF r.fi > Len(r.fileNameArray)
          THEN q' = [q EXCEPT ![t] = [r EXCEPT !.pc = "target", !.ti = @ + 1, !.fetch = NoFetch]]
          ELSE \/ q' = [q EXCEPT ![t] = Continue(r)]       \* Stat failed
               \/ q' = [q EXCEPT ![t] =
                         [r EXCEPT !.filePath = r.fileNameArray[r.fi], !.fetch = NoFetch,
                                   !.pc = IF rrdcachedClient # NIL THEN "infoCached" ELSE "infoLocal"]]
    /\ UNCHANGED <<rrdcachedClient, rrdcachedMutex, variant, inputs, conns, h, config, cacheVars>>

\* the loop over the Info lines of rrdcached
RECURSIVE ParseInfo(_, _, _, _)
ParseInfo(infoRes, i, ds, acc) ==
    IF i > Len(infoRes) THEN acc
    ELSE LET info == infoRes[i]
             a1 == IF info.Key = LastUpdateKey /\ info.Type = "int64"
                   THEN [acc EXCEPT !.lastUpdate = info.Value] ELSE acc
             a2 == IF HasPrefix(info.Key, DsKey(ds, IndexSuffix)) /\ info.Type = "int64"
                   THEN [a1 EXCEPT !.dsIndex = info.Value] ELSE a1
         IN  ParseInfo(infoRes, i + 1, ds, a2)

\* rrdcachedClient.Info(filePath)
QueryInfoCached(t) ==
    /\ q[t].pc = "infoCached"
    /\ LET r == Use(q[t], t) IN
          IF rrdcachedClient = NIL
          THEN q' = [q EXCEPT ![t] = Panic(r, "nil client")]
          ELSE \/ q' = [q EXCEPT ![t] = Sent([r EXCEPT !.pc = "infoFailed"])]
               \/ /\ rrdcachedClient = "open"
                  /\ q' = [q EXCEPT ![t] =
                            Sent([ParseInfo(CachedInfo(r.filePath), 1, r.ds, r) EXCEPT !.pc = "clamp"])]
    /\ UNCHANGED <<rrdcachedClient, rrdcachedMutex, variant, inputs, conns, h, config, cacheVars>>

\* rrd.Info(filePath); the type assertion on a missing datasource panics
QueryInfoLocal(t) ==
    /\ q[t].pc = "infoLocal"
    /\ LET r == q[t]
           infoRes == LocalInfo(r.filePath)
       IN  \/ q' = [q EXCEPT ![t] = [r EXCEPT !.pc = "infoFailed"]]
           \/ q' = [q EXCEPT ![t] =
                     IF \E e \in infoRes.ds_index : e.name = r.ds
                     THEN [r EXCEPT !.pc = "clamp", !.lastUpdate = infoRes.last_update,
                                    !.dsIndex = (CHOOSE e \in infoRes.ds_index : e.name = r.ds).index]
                     ELSE Panic(r, "missing datasource")]
    /\ UNCHANGED <<rrdcachedClient, rrdcachedMutex, variant, inputs, conns, h, config, cacheVars>>

\* Info returned an error: it is logged and the loop goes on
QueryInfoFailed(t) ==
    /\ q[t].pc = "infoFailed"
    /\ ~q[t].calling
    /\ q' = [q EXCEPT ![t] = Continue(@)]
    /\ UNCHANGED <<rrdcachedClient, rrdcachedMutex, variant, inputs, conns, h, config, cacheVars>>

\* the range clamp, then the call of fetchRRDData and its choice of backend
QueryClamp(t) ==
    /\ q[t].pc = "clamp"
    /\ ~q[t].calling
    /\ LET r == q[t]
           to == IF r.to > r.lastUpdate /\ r.lastUpdate > r.from THEN r.lastUpdate ELSE r.to
       IN  q' = [q EXCEPT ![t] =
                   [r EXCEPT !.to = to, !.start = r.from, !.end = to,
                             !.pc = IF rrdcachedClient # NIL THEN "flush" ELSE "fetchLocal"]]
    /\ UNCHANGED <<rrdcachedClient, rrdcachedMutex, variant, inputs, conns, h, config, cacheVars>>

\* ------------------------------------------------------------------------
\* fetchRRDData and recreateRRDCachedClient
\* ------------------------------------------------------------------------
IsTransient(err) ==
    \/ Contains(err, <<"t", "i", "m", "e", "o", "u", "t">>)
    \/ Contains(err, <<"c", "o", "n", "n", "e", "c", "t", "i", "o", "n">>)

\* a linear backoff
BackoffLinear(attempt) == attempt

\* a backoff counted from the number of the attempt to come
BackoffOfNext(attempt) == (attempt + 1) * (attempt + 1)

\* backoff := time.Duration(attempt*attempt) * time.Second
Backoff(attempt) == attempt * attempt

\* a retry loop of four passes
LoopNextFour(r) ==
    [r EXCEPT !.attempt = @ + 1, !.pc = IF r.attempt + 1 < 4 THEN "attempt" ELSE "fetchReturn"]

\* attempt++ and the loop condition
LoopNext(r) ==
    [r EXCEPT !.attempt = @ + 1, !.pc = IF r.attempt + 1 < 3 THEN "attempt" ELSE "fetchReturn"]

\* a fetch that returns the error of Flush
FetchFlushReturnsError(t) ==
    /\ q[t].pc = "flush"
    /\ LET r == Use(q[t], t) IN
          IF rrdcachedClient = NIL
          THEN q' = [q EXCEPT ![t] = Panic(r, "nil client")]
          ELSE \E flushErr \in {NilErr, ErrConnection} :
                  /\ rrdcachedClient = "closed" => flushErr = ErrConnection
                  /\ q' = [q EXCEPT ![t] =
                            IF flushErr # NilErr
                            THEN Sent([r EXCEPT !.pc = "fetchReturn", !.err = flushErr,
                                                !.flushes = @ + 1, !.flushErr = flushErr])
                            ELSE Sent([r EXCEPT !.pc = "attempt", !.attempt = 0, !.err = NilErr,
                                                !.flushes = @ + 1, !.flushErr = flushErr])]
    /\ UNCHANGED <<rrdcachedClient, rrdcachedMutex, variant, inputs, conns, h, config, cacheVars>>

\* rrdcachedClient.Flush(filePath); its error is only logged
FetchFlush(t) ==
    /\ q[t].pc = "flush"
    /\ LET r == Use(q[t], t) IN
          IF rrdcachedClient = NIL
          THEN q' = [q EXCEPT ![t] = Panic(r, "nil client")]
          ELSE \E flushErr \in {NilErr, ErrConnection} :
                  /\ rrdcachedClient = "closed" => flushErr = ErrConnection
                  /\ q' = [q EXCEPT ![t] =
                            Sent([r EXCEPT !.pc = "attempt", !.attempt = 0, !.err = NilErr,
                                           !.flushes = @ + 1, !.flushErr = flushErr])]
    /\ UNCHANGED <<rrdcachedClient, rrdcachedMutex, variant, inputs, conns, h, config, cacheVars>>

\* one pass of the retry loop: the backoff sleep, Fetch, and the
\* classification of its error
FetchAttempt(t) ==
    /\ q[t].pc = "attempt"
    /\ ~q[t].calling
    /\ LET r == Use(q[t], t)
           s == [r EXCEPT !.slept = @ + (IF r.attempt > 0 THEN Backoff(r.attempt) ELSE 0)]
           c == Sent(s)
       IN  IF rrdcachedClient = NIL
           THEN q' = [q EXCEPT ![t] = Panic(s, "nil client")]
           ELSE \E e \in DaemonErrors(inputs) \cup {NilErr} :
                   /\ rrdcachedClient = "closed" => e = ErrConnection
                   /\ e = NilErr => r.start <= r.end
                   /\ q' = [q EXCEPT ![t] =
                             IF e = NilErr
                             THEN [c EXCEPT !.err = NilErr, !.fetchLog = Append(@, e), !.pc = "fetchReturn",
                                            !.fetch = [ok |-> TRUE,
                                                       fetchData |-> CachedRows(r.filePath, r.start, r.end),
                                                       dsNames |-> DsNames(r.filePath),
                                                       fetchStart |-> r.start, fetchStep |-> Step,
                                                       rowCnt |-> Len(CachedRows(r.filePath, r.start, r.end))]]
                             ELSE IF IsTransient(e)
                                  THEN [c EXCEPT !.err = e, !.fetchLog = Append(@, e), !.pc = "recreate"]
                                  ELSE LoopNext([c EXCEPT !.err = e, !.fetchLog = Append(@, e)])]
    /\ UNCHANGED <<rrdcachedClient, rrdcachedMutex, variant, inputs, conns, h, config, cacheVars>>

\* recreateRRDCachedClient: rrdcachedMutex.Lock()
RecreateLock(t) ==
    /\ q[t].pc = "recreate"
    /\ ~q[t].calling
    /\ rrdcachedMutex = "free"
    /\ rrdcachedMutex' = t
    /\ q' = [q EXCEPT ![t] = [@ EXCEPT !.pc = "rClose", !.reconnects = @ + 1]]
    /\ UNCHANGED <<rrdcachedClient, variant, inputs, conns, h, config, cacheVars>>

\* a reconnect that drops the old client without Close()
RecreateCloseSkipped(t) ==
    /\ q[t].pc = "rClose"
    /\ q' = [q EXCEPT ![t] = [@ EXCEPT !.pc = IF rrdcachedClient # NIL THEN "rNil" ELSE "rNew"]]
    /\ UNCHANGED <<rrdcachedClient, rrdcachedMutex, variant, inputs, conns, h, config, cacheVars>>

\* recreateRRDCachedClient: rrdcachedClient.Close() when it is not nil
RecreateClose(t) ==
    /\ q[t].pc = "rClose"
    /\ IF rrdcachedClient # NIL
       THEN /\ rrdcachedClient' = "closed"
            /\ conns' = IF rrdcachedClient = "open" THEN conns - 1 ELSE conns
            /\ q' = [q EXCEPT ![t] = [@ EXCEPT !.pc = "rNil"]]
       ELSE /\ rrdcachedClient' = rrdcachedClient
            /\ conns' = conns
            /\ q' = [q EXCEPT ![t] = [@ EXCEPT !.pc = "rNew"]]
    /\ UNCHANGED <<rrdcachedMutex, variant, inputs, h, config, cacheVars>>

\* recreateRRDCachedClient: rrdcachedClient = nil
RecreateNil(t) ==
    /\ q[t].pc = "rNil"
    /\ rrdcachedClient' = NIL
    /\ q' = [q EXCEPT ![t] = [@ EXCEPT !.pc = "rNew"]]
    /\ UNCHANGED <<rrdcachedMutex, variant, inputs, conns, h, config, cacheVars>>

\* recreateRRDCachedClient: rrdcachedClient, err = NewClient(...), the
\* deferred Unlock, and back in the retry loop (NewClient returns a nil
\* client with its error)
RecreateNew(t) ==
    /\ q[t].pc = "rNew"
    /\ rrdcachedClient' \in {"open", NIL}
    /\ conns' = IF rrdcachedClient' = "open" THEN conns + 1 ELSE conns
    /\ rrdcachedMutex' = "free"
    /\ q' = [q EXCEPT ![t] = LoopNext(@)]
    /\ UNCHANGED <<variant, inputs, h, config, cacheVars>>

\* Info, Flush or Fetch returns to the handler
DaemonReturn(t) ==
    /\ q[t].calling
    /\ q' = [q EXCEPT ![t] = [@ EXCEPT !.calling = FALSE]]
    /\ UNCHANGED <<rrdcachedClient, rrdcachedMutex, variant, inputs, conns, h, config, cacheVars>>

\* *val, or NaN for a nil pointer
ConvertRows(rows) ==
    [i \in 1..Len(rows) |-> [j \in 1..Len(rows[i]) |-> IF ~rows[i][j].null THEN rows[i][j].val ELSE NaN]]

\* after the retry loop: the error is returned (query logs it and goes on
\* with the next file), or the rows are converted and returned
FetchReturn(t) ==
    /\ q[t].pc = "fetchReturn"
    /\ ~q[t].calling
    /\ LET r == q[t] IN
          q' = [q EXCEPT ![t] =
                  IF r.err # NilErr THEN Continue(r)
                  ELSE [r EXCEPT !.pc = "project", !.fetch.fetchData = ConvertRows(@)]]
    /\ UNCHANGED <<rrdcachedClient, rrdcachedMutex, variant, inputs, conns, h, config, cacheVars>>

\* rrd.Fetch(filePath, cf, start, end, step) and the copy of its values
FetchLocal(t) ==
    /\ q[t].pc = "fetchLocal"
    /\ LET r == q[t] IN
          \/ q' = [q EXCEPT ![t] = Continue(r)]
          \/ /\ r.start <= r.end
             /\ q' = [q EXCEPT ![t] =
                       [r EXCEPT !.pc = "project",
                                 !.fetch = [ok |-> TRUE,
                                            fetchData |-> LocalRows(r.filePath, r.start, r.end),
                                            dsNames |-> DsNames(r.filePath),
                                            fetchStart |-> r.start, fetchStep |-> Step,
                                            rowCnt |-> Len(LocalRows(r.filePath, r.start, r.end))]]]
    /\ UNCHANGED <<rrdcachedClient, rrdcachedMutex, variant, inputs, conns, h, config, cacheVars>>

\* ------------------------------------------------------------------------
\* query: projection
\* ------------------------------------------------------------------------
\* the lookup of ds in dsNames; dsIndex stays as it is when ds is not there
FindDsIndex(dsNames, ds, dsIndex) ==
    IF \E i \in 1..Len(dsNames) : dsNames[i] = ds
    THEN (CHOOSE i \in 1..Len(dsNames) : dsNames[i] = ds /\ \A j \in 1..(i - 1) : dsNames[j] # ds) - 1
    ELSE dsIndex

\* the loop over every row
RECURSIVE ProjectRowsAll(_, _, _, _, _)
ProjectRowsAll(fetch, dsIndex, i, timestamp, points) ==
    IF ~(i < fetch.rowCnt) THEN points
    ELSE ProjectRowsAll(fetch, dsIndex, i + 1, timestamp + fetch.fetchStep,
            IF dsIndex < Len(fetch.fetchData[i + 1]) /\ ~IsNaN(fetch.fetchData[i + 1][dsIndex + 1])
            THEN Append(points, <<Times64(Multiplier, fetch.fetchData[i + 1][dsIndex + 1]), timestamp * 1000>>)
            ELSE points)

\* a loop whose timestamp advances only with the rows that give a point
RECURSIVE ProjectRowsShifted(_, _, _, _, _)
ProjectRowsShifted(fetch, dsIndex, i, timestamp, points) ==
    IF ~(i < fetch.rowCnt - 1) THEN points
    ELSE IF dsIndex < Len(fetch.fetchData[i + 1]) /\ ~IsNaN(fetch.fetchData[i + 1][dsIndex + 1])
         THEN ProjectRowsShifted(fetch, dsIndex, i + 1, timestamp + fetch.fetchStep,
                 Append(points, <<Times64(Multiplier, fetch.fetchData[i + 1][dsIndex + 1]), timestamp * 1000>>))
         ELSE ProjectRowsShifted(fetch, dsIndex, i + 1, timestamp, points)

\* the loop over the rows 0 .. rowCnt-2
RECURSIVE ProjectRows(_, _, _, _, _)
ProjectRows(fetch, dsIndex, i, timestamp, points) ==
    IF ~(i < fetch.rowCnt - 1) THEN points
    ELSE ProjectRows(fetch, dsIndex, i + 1, timestamp + fetch.fetchStep,
            IF dsIndex < Len(fetch.fetchData[i + 1]) /\ ~IsNaN(fetch.fetchData[i + 1][dsIndex + 1])
            THEN Append(points, <<Times64(Multiplier, fetch.fetchData[i + 1][dsIndex + 1]), timestamp * 1000>>)
            ELSE points)

ExtractedTarget(filePath, ds) ==
    Replace(Replace(Replace(filePath, RRD, <<>>, -1), RrdPath, <<>>, -1), <<"/">>, <<":">>, -1)
       \o <<":">> \o ds

\* the datasource column, the data points, and the result entry of one file
QueryProject(t) ==
    /\ q[t].pc = "project"
    /\ LET r == q[t]
           dsIndex == IF rrdcachedClient # NIL /\ r.dsIndex = 0
                      THEN FindDsIndex(r.fetch.dsNames, r.ds, r.dsIndex) ELSE r.dsIndex
           points == ProjectRows(r.fetch, dsIndex, 0, r.fetch.fetchStart, <<>>)
       IN  q' = [q EXCEPT ![t] =
                   [Continue(r) EXCEPT !.fetch = r.fetch, !.dsIndex = dsIndex,
                        !.answered = Append(@, [file |-> r.filePath, ds |-> r.ds]),
                        !.result = Append(@, [Target |-> ExtractedTarget(r.filePath, r.ds),
                                              DataPoints |-> points])]]
    /\ UNCHANGED <<rrdcachedClient, rrdcachedMutex, variant, inputs, conns, h, config, cacheVars>>

NextQuery ==
    \/ \E t \in Tasks : QueryDecode(t)
    \/ \E t \in Tasks : QueryTarget(t)
    \/ \E t \in Tasks : QueryFile(t)
    \/ \E t \in Tasks : QueryInfoCached(t)
    \/ \E t \in Tasks : QueryInfoLocal(t)
    \/ \E t \in Tasks : QueryInfoFailed(t)
    \/ \E t \in Tasks : QueryClamp(t)
    \/ \E t \in Tasks : FetchFlush(t)
    \/ \E t \in Tasks : FetchAttempt(t)
    \/ \E t \in Tasks : DaemonReturn(t)
    \/ \E t \in Tasks : RecreateLock(t)
    \/ \E t \in Tasks : RecreateClose(t)
    \/ \E t \in Tasks : RecreateNil(t)
    \/ \E t \in Tasks : RecreateNew(t)
    \/ \E t \in Tasks : FetchReturn(t)
    \/ \E t \in Tasks : FetchLocal(t)
    \/ \E t \in Tasks : QueryProject(t)

\* ------------------------------------------------------------------------
\* search and ls
\* ------------------------------------------------------------------------
\* snapshots of the namespace: the one of the documentation's example,
\* the one of the archives a.rrd and b.rrd above, one of a tree where a
\* name is both a file and a directory, and the empty one
SnapshotHosts ==
    << <<"h", "o", "s", "t", "1", ":", "c", "p", "u", ":", "u", "s", "e", "d">>,
       <<"h", "o", "s", "t", "1", ":", "c", "p", "u", ":", "i", "d", "l", "e">>,
       <<"h", "o", "s", "t", "2", ":", "m", "e", "m", ":", "u", "s", "e", "d">> >>

SnapshotFlat ==
    << <<"a", ":", "x">>,
       <<"a", ":", "y">>,
       <<"b", ":", "y">> >>

SnapshotTree ==
    << <<"a", ":", "y">>,
       <<"s", ":", "c", ":", "y">>,
       <<"s", ":", "t", ":", "u", ":", "y">>,
       <<"s", ":", "c", ":", "x">>,
       <<"s", ":", "t", ":", "y">> >>

Snapshots == {SnapshotHosts, SnapshotFlat, SnapshotTree, <<>>}

\* the targets of the search and ls requests
IndexTargets ==
    { <<>>,
      <<"h", "o", "s", "t", "1">>,
      <<"h", "o", "s", "t", "2">>,
      <<"u", "s", "e", "d">>,
      <<"h", "o", "s", "t", "1", ":", "c", "p", "u">>,
      <<"s">>,
      <<"s", ":", "t">>,
      <<"a">>,
      <<"y">>,
      <<":">>,
      <<"z">> }

ErrEOF == <<"E", "O", "F">>

ErrSyntax == <<"i", "n", "v", "a", "l", "i", "d", " ", "c", "h", "a", "r", "a", "c", "t", "e", "r">>

\* decoder.Decode(&searchRequest): a JSON body carries its target; an
\* empty body gives the error EOF and any other body a syntax or type
\* error, both leaving the zero SearchRequest
IndexBodies ==
    {[err |-> NilErr, Target |-> tg] : tg \in IndexTargets}
       \cup {[err |-> ErrEOF, Target |-> <<>>], [err |-> ErrSyntax, Target |-> <<>>]}

\* the bodies behind each value of inputs
IndexInputSet(tag) == IF tag = "index" THEN IndexBodies ELSE {}

IdleHandler ==
    [pc |-> "idle", op |-> "", err |-> NilErr, target |-> <<>>, status |-> 0, gets |-> 0,
     snapshot |-> <<>>, result |-> <<>>]

\* search: Decode; any error is a bad request
SearchDecode ==
    /\ h.pc = "idle"
    /\ \E body \in IndexInputSet(inputs) :
          h' = IF body.err # NilErr
               THEN [h EXCEPT !.pc = "done", !.op = "search", !.err = body.err, !.status = 400]
               ELSE [h EXCEPT !.pc = "search", !.op = "search", !.target = body.Target]
    /\ UNCHANGED <<config, rrdcachedClient, rrdcachedMutex, variant, inputs, conns, q, cacheVars>>

\* the loop of search over the snapshot
SearchResult(list, target) ==
    IF target # <<>> THEN SelectSeq(list, LAMBDA path : Contains(path, target)) ELSE <<>>

\* search: searchCache.Get() unless the target is empty, the loop, and
\* respondJSON (result is a non-nil slice: an array also when it is empty)
SearchRespond ==
    /\ h.pc = "search"
    /\ h.target # <<>> => m = "free"
    /\ h' = [h EXCEPT !.pc = "done", !.status = 200,
                      !.gets = IF h.target # <<>> THEN @ + 1 ELSE @,
                      !.snapshot = IF h.target # <<>> THEN ListOf(items) ELSE @,
                      !.result = SearchResult(ListOf(items), h.target)]
    /\ UNCHANGED <<config, rrdcachedClient, rrdcachedMutex, variant, inputs, conns, q, cacheVars>>

\* an ls that goes on after any Decode error
LsDecodeLenient ==
    /\ h.pc = "idle"
    /\ \E body \in IndexInputSet(inputs) :
          h' = [h EXCEPT !.pc = "ls", !.op = "ls", !.err = body.err, !.target = body.Target]
    /\ UNCHANGED <<config, rrdcachedClient, rrdcachedMutex, variant, inputs, conns, q, cacheVars>>

\* ls: Decode; an error other than EOF is a bad request
LsDecode ==
    /\ h.pc = "idle"
    /\ \E body \in IndexInputSet(inputs) :
          h' = IF body.err # NilErr /\ body.err # ErrEOF
               THEN [h EXCEPT !.pc = "done", !.op = "ls", !.err = body.err, !.status = 400]
               ELSE [h EXCEPT !.pc = "ls", !.op = "ls", !.err = body.err, !.target = body.Target]
    /\ UNCHANGED <<config, rrdcachedClient, rrdcachedMutex, variant, inputs, conns, q, cacheVars>>

\* prefix := target, with a ":" appended unless it is empty
LsPrefix(target) == IF target # <<>> THEN target \o <<":">> ELSE target

\* the identifier itself, datasource included
LsFilePathWhole(path) == path

\* path[:lastColon]: the identifier without its datasource
LsFilePath(path) == SubSeq(path, 1, LastIndex(path, ":") - 1)

\* the relPath of every identifier the loop of ls does not skip
LsRelPaths(list, prefix) ==
    {TrimPrefix(LsFilePath(list[i]), prefix) :
        i \in {k \in 1..Len(list) : /\ LastIndex(list[k], ":") - 1 > 0
                                    /\ HasPrefix(LsFilePath(list[k]), prefix)}}

\* strings.SplitN(relPath, ":", 2)[0]
FirstPart(relPath) ==
    SubSeq(relPath, 1, (CHOOSE i \in 1..Len(relPath) :
                           relPath[i] = ":" /\ \A j \in 1..(i - 1) : relPath[j] # ":") - 1)

DirSet(list, prefix) == {FirstPart(rel) : rel \in {r \in LsRelPaths(list, prefix) : Contains(r, <<":">>)}}

\* every relPath taken as a file, directories and the empty one included
FileSetAll(list, prefix) == LsRelPaths(list, prefix)

FileSet(list, prefix) == {rel \in LsRelPaths(list, prefix) : ~Contains(rel, <<":">>) /\ rel # <<>>}

\* ls: searchCache.Get(), the loop, the two maps turned to slices (in the
\* order the map iterations give) and respondJSON
LsRespond ==
    /\ h.pc = "ls"
    /\ m = "free"
    /\ \E directories \in Perms(DirSet(ListOf(items), LsPrefix(h.target))),
          files \in Perms(FileSet(ListOf(items), LsPrefix(h.target))) :
          h' = [h EXCEPT !.pc = "done", !.status = 200, !.gets = @ + 1,
                         !.snapshot = ListOf(items),
                         !.result = [Directories |-> directories, Files |-> files]]
    /\ UNCHANGED <<config, rrdcachedClient, rrdcachedMutex, variant, inputs, conns, q, cacheVars>>

NextSearch ==
    \/ SearchDecode
    \/ SearchRespond
    \/ LsDecode
    \/ LsRespond

\* ------------------------------------------------------------------------
\* Specifications
\* ------------------------------------------------------------------------
OffTask == [IdleTask EXCEPT !.pc = "off"]

\* the refresh goroutine and two callers of Get(); no request is served.
\* Update() takes the path relative to the base path and asks only whether
\* the client is nil: one form of -r, and -d given exactly when connected
InitCacheSpec ==
    /\ InitMain
    /\ config.RrdPath = <<"d", "/">>
    /\ config.RrdCached # <<>> <=> rrdcachedClient # NIL
    /\ inputs = "none"
    /\ q = [t \in Tasks |-> OffTask]
    /\ h = IdleHandler
    /\ InitCache

SpecCache == InitCacheSpec /\ [][NextCache]_vars

\* the refresh goroutine and one caller of Get()
NextRefresh ==
    \/ GetLock("r1")
    \/ GetReturn("r1")
    \/ UpdateBegin
    \/ WalkVisit
    \/ WalkError
    \/ UpdateLock
    \/ UpdateStore
    \/ UpdateSleep

\* the loop of the refresh goroutine goes on: time.Sleep returns, and the
\* call of Update() that follows it is made
SpecRefresh == InitCacheSpec /\ [][NextRefresh]_vars /\ WF_vars(UpdateSleep) /\ WF_vars(UpdateBegin)

\* one /query handler, any request body, either backend
InitQuerySpec ==
    /\ InitMain
    /\ inputs = "any"
    /\ q = [t \in Tasks |-> IF t = "q1" THEN IdleTask ELSE OffTask]
    /\ h = IdleHandler
    /\ InitCache

SpecQuery == InitQuerySpec /\ [][NextQuery]_vars

\* one /query handler that is scheduled as long as it can take a step, with
\* the request for y of every archive or a malformed one, on either backend
InitFetchSpec ==
    /\ InitMain
    /\ inputs = "one"
    /\ q = [t \in Tasks |-> IF t = "q1" THEN IdleTask ELSE OffTask]
    /\ h = IdleHandler
    /\ InitCache

SpecFetch == InitFetchSpec /\ [][NextQuery]_vars /\ WF_vars(NextQuery)

\* two concurrent /query handlers on the daemon backend, each with the
\* request for y of every archive over the whole time range
InitDaemonSpec ==
    /\ config = [RrdPath |-> <<"d", "/">>, RrdCached |-> <<"u", "n", "i", "x", ":", "s">>]
    /\ rrdcachedClient = "open"
    /\ variant = "Daemon"
    /\ conns = 1
    /\ rrdcachedMutex = "free"
    /\ inputs = "daemon"
    /\ q = [t \in Tasks |-> IdleTask]
    /\ h = IdleHandler
    /\ InitCache

SpecDaemon == InitDaemonSpec /\ [][NextQuery]_vars

\* the state after a refresh has stored a snapshot
InitSnapshot ==
    /\ \E list \in Snapshots :
          /\ heap = <<list>>
          /\ complete = {[ref |-> <<1>>, list |-> list]}
    /\ items = <<1>>
    /\ m = "free"
    /\ upc = "sleep"
    /\ newItems = <<1>>
    /\ walkIdx = Len(WalkEntries) + 1
    /\ refreshes = 1
    /\ rpc = [r \in Readers |-> "idle"]
    /\ held = [r \in Readers |-> NilSlice]
    /\ startItems = [ref |-> NilSlice, list |-> <<>>]
    /\ infoLog = <<>>

\* one request, to /query or to /search or /ls, on either backend
InitServerSpec ==
    /\ InitMain
    /\ inputs \in {"one", "index"}
    /\ q = [t \in Tasks |-> IF t = "q1" THEN IdleTask ELSE OffTask]
    /\ h = IdleHandler
    /\ InitSnapshot

SpecServer == InitServerSpec /\ [][NextQuery \/ NextSearch]_vars

\* ------------------------------------------------------------------------
\* Properties of query and fetchRRDData
\* ------------------------------------------------------------------------
\* fetchRRDData has been called for the current file and has not returned
InFetch(r) ==
    r.pc \in {"flush", "attempt", "recreate", "rClose", "rNil", "rNew", "fetchReturn", "fetchLocal"}

\* the result entry of the current file has just been appended
JustProjected(r) == r.pc = "file" /\ r.fetch.ok

LastEntry(r) == r.result[Len(r.result)]

HasDs(f, ds) == \E i \in 1..Len(DsNames(f)) : DsNames(f)[i] = ds

\* the column of ds in the archive (0-based)
ColumnOf(f, ds) == (CHOOSE i \in 1..Len(DsNames(f)) : DsNames(f)[i] = ds) - 1

\* C1: whenever the request's to is after and its from is before the
\* last-update time of the file being fetched, the end passed to
\* fetchRRDData is that last-update time; for every file of the request.
C1_ClampEveryFile ==
    \A t \in Tasks :
        LET r == q[t] IN
           (InFetch(r) /\ r.reqTo > LastUpdate(r.filePath) /\ r.from < LastUpdate(r.filePath))
              => r.end = LastUpdate(r.filePath)

\* C2: no data point of a result entry carries the time of the final
\* fetched row, every point carries the time of an earlier row, and a fetch
\* of at most one row gives no data point; in both variants.
C2_FinalRowExcluded ==
    \A t \in Tasks :
        LET r == q[t]
            n == r.fetch.rowCnt
            pts == LastEntry(r).DataPoints
        IN  JustProjected(r) =>
               /\ \A k \in 1..Len(pts) :
                     /\ pts[k][2] # (r.fetch.fetchStart + (n - 1) * r.fetch.fetchStep) * 1000
                     /\ \E i \in 0..(n - 2) : pts[k][2] = (r.fetch.fetchStart + i * r.fetch.fetchStep) * 1000
               /\ n <= 1 => pts = <<>>

\* a daemon fetch of several rows whose final row holds a number in the
\* requested column, with data points from the other rows
C2_Witness ==
    \E t \in Tasks :
        LET r == q[t] IN
           /\ JustProjected(r)
           /\ variant = "Daemon"
           /\ r.fetch.rowCnt >= 3
           /\ HasDs(r.filePath, r.ds)
           /\ ~IsNaN(r.fetch.fetchData[r.fetch.rowCnt][ColumnOf(r.filePath, r.ds) + 1])
           /\ LastEntry(r).DataPoints # <<>>

\* the column query projects: the requested datasource's column in the
\* archive, or, when the archive has no such datasource, the one query
\* resolved
ProjectedColumn(r) == IF HasDs(r.filePath, r.ds) THEN ColumnOf(r.filePath, r.ds) ELSE r.dsIndex

\* C3: the data points of a result entry are, one for one, the non-final
\* rows whose stored sample in the requested column is a number v, each with
\* the value Multiplier * v; rows holding NaN give no point.
C3_Projection ==
    \A t \in Tasks :
        LET r == q[t]
            pts == LastEntry(r).DataPoints
            col == ProjectedColumn(r)
            TimeOf(i) == r.fetch.fetchStart + i * r.fetch.fetchStep
            rows == {i \in 0..(r.fetch.rowCnt - 2) :
                        col < Len(DsNames(r.filePath)) /\ ~Sample(r.filePath, col, TimeOf(i)).nan}
        IN  JustProjected(r) =>
               /\ Len(pts) = Cardinality(rows)
               /\ \A i \in rows :
                     \E k \in 1..Len(pts) :
                        pts[k] = <<F(Multiplier * Sample(r.filePath, col, TimeOf(i)).v), TimeOf(i) * 1000>>

\* a non-final NaN row was dropped and the raw value 2.5 came out as 25.0
C3_Witness ==
    \E t \in Tasks :
        LET r == q[t] IN
           /\ JustProjected(r)
           /\ HasDs(r.filePath, r.ds)
           /\ \E i \in 1..(r.fetch.rowCnt - 1) : IsNaN(r.fetch.fetchData[i][ColumnOf(r.filePath, r.ds) + 1])
           /\ \E i \in 1..(r.fetch.rowCnt - 1) : r.fetch.fetchData[i][ColumnOf(r.filePath, r.ds) + 1] = F(5)
           /\ \E k \in 1..Len(LastEntry(r).DataPoints) : LastEntry(r).DataPoints[k][1] = F(50)

\* C6: a daemon fetch makes at most 3 Fetch attempts and none after a
\* successful one; when it returns an error all 3 attempts failed and the
\* error is the third attempt's; when it returns data, the data is that of
\* the successful, last attempt.
C6_ThreeAttemptsLastError ==
    \A t \in Tasks :
        LET r == q[t]
            log == r.fetchLog
        IN  /\ Len(log) <= 3
            /\ \A i \in 1..(Len(log) - 1) : log[i] # NilErr
            /\ r.pc = "fetchReturn" =>
                  IF r.err # NilErr
                  THEN Len(log) = 3 /\ log[3] # NilErr /\ r.err = log[3]
                  ELSE /\ log # <<>> /\ log[Len(log)] = NilErr
                       /\ r.fetch.ok
                       /\ r.fetch.fetchData = CachedRows(r.filePath, r.start, r.end)

\* three failed attempts with different errors, the last one returned
C6_Witness ==
    \E t \in Tasks :
        /\ q[t].pc = "fetchReturn"
        /\ q[t].fetchLog = <<ErrTimeout, ErrOther, ErrConnection>>
        /\ q[t].err = ErrConnection

\* C7: a daemon fetch that returns data after exactly two failed attempts,
\* both with a timeout or connection error, has made two reconnect attempts
\* and slept 1s + 4s.
C7_TwoTransientThenSuccess ==
    \A t \in Tasks :
        LET r == q[t] IN
           (/\ r.pc = "fetchReturn"
            /\ r.err = NilErr
            /\ Len(r.fetchLog) = 3
            /\ r.fetchLog[1] \in {ErrTimeout, ErrConnection}
            /\ r.fetchLog[2] \in {ErrTimeout, ErrConnection})
              => r.reconnects = 2 /\ r.slept = 5

\* a timeout, a connection error, then a successful third attempt
C7_Witness ==
    \E t \in Tasks :
        /\ q[t].pc = "fetchReturn"
        /\ q[t].fetchLog = <<ErrTimeout, ErrConnection, NilErr>>
        /\ q[t].fetch.ok

\* C8: no Info, Flush or Fetch call uses rrdcachedClient while another task
\* is inside recreateRRDCachedClient between Close() and the installation
\* of the new client, so none finds a closed or nil client left by another
\* task's teardown.
C8_RecreateExcludesUse ==
    \A t \in Tasks : ~q[t].raced

\* C9: in a process started on the daemon backend, no Info and no Fetch
\* goes to direct file access.
C9_VariantFixed ==
    variant = "Daemon" => \A t \in Tasks : q[t].pc \notin {"infoLocal", "fetchLocal"}

\* C10: a query is never aborted, and its result has entries only for
\* files that have the requested datasource: a file whose Info or Fetch
\* fails (also for a missing datasource) is left out and the others are
\* answered.
C10_PartialFailure ==
    \A t \in Tasks :
        /\ q[t].pc # "panicked"
        /\ \A i \in 1..Len(q[t].answered) : HasDs(q[t].answered[i].file, q[t].answered[i].ds)
        /\ Len(q[t].result) = Len(q[t].answered)

\* ------------------------------------------------------------------------
\* Properties of request decoding, search and ls
\* ------------------------------------------------------------------------
\* C11: a request to query, search or ls whose body does not decode (a
\* syntax or type error) is answered 400 and the handler has done nothing
\* else: no glob, Info, Flush or Fetch, and no Get() of the snapshot.
C11_MalformedIsBadRequest ==
    /\ \A t \in Tasks :
          q[t].decoded = "error" =>
             q[t] = [IdleTask EXCEPT !.pc = "done", !.status = 400, !.decoded = "error"]
    /\ h.err = ErrSyntax =>
          h = [IdleHandler EXCEPT !.pc = "done", !.op = h.op, !.err = ErrSyntax, !.status = 400]

\* ls has answered a body with a syntax error
C11_Witness == h.op = "ls" /\ h.err = ErrSyntax /\ h.status = 400 /\ h.gets = 0

\* ls has answered list("host1") on the snapshot of the example
ListedHost1 ==
    /\ h.pc = "done" /\ h.op = "ls" /\ h.status = 200
    /\ h.snapshot = SnapshotHosts
    /\ h.target = <<"h", "o", "s", "t", "1">>

\* C12 as stated: on {"host1:cpu:used", "host1:cpu:idle", "host2:mem:used"},
\* list("host1") returns directories = ["cpu"] and files = [].
C12_ListHost1AsStated ==
    ListedHost1 => h.result = [Directories |-> << <<"c", "p", "u">> >>, Files |-> <<>>]

\* C12, amended: on that snapshot list("host1") returns directories = []
\* and files = ["cpu"]: "cpu" is the archive host1/cpu.rrd, "used" and
\* "idle" are its datasources.
C12_ListHost1 ==
    ListedHost1 => h.result = [Directories |-> <<>>, Files |-> << <<"c", "p", "u">> >>]

C12_Witness == ListedHost1

\* the name of an entry of a listing below target
JoinName(target, name) == IF target = <<>> THEN name ELSE target \o <<":">> \o name

\* the files a client finds by list(target) and list() of every directory
\* it is given, recursively
RECURSIVE ListTree(_, _)
ListTree(list, target) ==
    {JoinName(target, f) : f \in FileSet(list, LsPrefix(target))}
       \cup UNION {ListTree(list, JoinName(target, d)) : d \in DirSet(list, LsPrefix(target))}

NoDuplicates(seq) == \A i, j \in 1..Len(seq) : seq[i] = seq[j] => i = j

\* C13: the identifiers search("") returns are, without repetition, those
\* of the snapshot, and their files are exactly the files found by list("")
\* and list() of every directory below it.
C13_ListReconstructsSearch ==
    (h.pc = "done" /\ h.op = "search" /\ h.status = 200 /\ h.target = <<>>) =>
       /\ Range(h.result) = Range(ListOf(items))
       /\ NoDuplicates(h.result)
       /\ ListTree(ListOf(items), <<>>) = {LsFilePath(h.result[i]) : i \in 1..Len(h.result)}

\* C14: search(t) returns the identifiers of the snapshot that contain t,
\* in the snapshot's order, each as often as it occurs, and nothing else;
\* on the example, search("used") returns host1:cpu:used and host2:mem:used.
C14_SearchIsSubstringFilter ==
    (h.pc = "done" /\ h.op = "search" /\ h.status = 200) =>
       /\ h.result = SelectSeq(ListOf(items), LAMBDA id : Contains(id, h.target))
       /\ (ListOf(items) = SnapshotHosts /\ h.target = <<"u", "s", "e", "d">>)
             => h.result = <<SnapshotHosts[1], SnapshotHosts[3]>>

\* ------------------------------------------------------------------------
\* Properties of the identifiers
\* ------------------------------------------------------------------------
\* seg1..segN of an identifier rejoined with "/" below the base path, with
\* the archive extension
ArchivePathOf(id) ==
    TrimRight(RrdPath, "/") \o <<"/">> \o Replace(LsFilePath(id), <<":">>, <<"/">>, -1) \o RRD

\* the files the walk hands to the callback
VisitedFiles == {WalkEntries[i].path : i \in {k \in 1..Len(WalkEntries) : ~WalkEntries[k].isDir}}

\* C15: every entry of every snapshot Update() has stored is seg1:...:segN:ds
\* where seg1/.../segN.rrd below the base path is a file the walk visited
\* and ds is a datasource of that file.
C15_EntriesNameArchives ==
    \A s \in complete :
        \A i \in 1..Len(s.list) :
            /\ LastIndex(s.list[i], ":") > 1
            /\ ArchivePathOf(s.list[i]) \in VisitedFiles
            /\ TargetDs(s.list[i]) \in Range(DsNames(ArchivePathOf(s.list[i])))

\* C16: the target label of a result entry for file F and datasource D is
\* the identifier Update() stores for F and D (the path relative to the
\* base directory, "/" replaced by ":", then ":" and D), whether the base
\* path is configured with a trailing slash or without.
C16_LabelIsIdentifier ==
    \A t \in Tasks :
        JustProjected(q[t]) =>
           LastEntry(q[t]).Target = FName(q[t].filePath) \o <<":">> \o q[t].ds

\* the identifiers of an archive
IdsOf(path) == {FName(path) \o <<":">> \o ds : ds \in Range(DsNames(path))}

\* the walk has finished and its list is, or is about to be, stored
WalkComplete == upc \in {"store", "sleep"} /\ infoLog # <<>>

\* C17: an Info failure leaves the walk running on the next entry with the
\* list as it was; the list a finished walk stores holds every identifier
\* of each visited archive whose Info succeeded and none of an archive
\* whose Info failed, and it is the list stored.
C17_InfoFailureSkipsOneFile ==
    /\ [][(Len(infoLog') > Len(infoLog) /\ ~infoLog'[Len(infoLog')].ok)
             => (upc' = "walk" /\ walkIdx' = walkIdx + 1 /\ heap' = heap /\ newItems' = newItems)]_vars
    /\ [](WalkComplete =>
             /\ Len(infoLog) = Cardinality({k \in 1..Len(WalkEntries) :
                                   ~WalkEntries[k].isDir /\ Contains(WalkEntries[k].name, RRD)})
             /\ \A k \in 1..Len(infoLog) :
                   IF infoLog[k].ok
                   THEN IdsOf(infoLog[k].path) \subseteq Range(ListOf(newItems))
                   ELSE IdsOf(infoLog[k].path) \cap Range(ListOf(newItems)) = {}
             /\ upc = "sleep" => items = newItems)

\* a refresh has stored a list after Info failed for the first archive and
\* succeeded for the second
C17_Witness ==
    /\ upc = "sleep"
    /\ Len(infoLog) >= 2 /\ ~infoLog[1].ok /\ infoLog[2].ok
    /\ IdsOf(FileB) \subseteq Range(ListOf(items))
    /\ IdsOf(FileA) \cap Range(ListOf(items)) = {}

\* ------------------------------------------------------------------------
\* Properties of the backend selection and of the daemon fetch
\* ------------------------------------------------------------------------
\* a call of the daemon client is next, or a reconnect is under way
OnDaemon(r) == r.pc \in {"infoCached", "flush", "attempt", "recreate", "rClose", "rNil", "rNew"}

\* a call of direct file access is next
OnLocal(r) == r.pc \in {"infoLocal", "fetchLocal"}

\* C18: with -d given and the initial connection failed, every Info and
\* Fetch is direct file access; with the initial connection made, every
\* Info and Fetch goes to the daemon.
C18_StartupFallback ==
    \A t \in Tasks :
        /\ (config.RrdCached # <<>> /\ variant = "Local") => ~OnDaemon(q[t])
        /\ variant = "Daemon" => ~OnLocal(q[t])

\* C19: a daemon fetch calls Flush once, before its first Fetch attempt and
\* never again on a retry; whatever Flush returned, the retry loop runs and
\* the fetch returns what its last Fetch attempt gave: the error, or the
\* rows of the archive.
C19_FlushOnceAndIgnored ==
    \A t \in Tasks :
        LET r == q[t] IN
           /\ r.pc = "flush" => r.flushes = 0 /\ r.fetchLog = <<>>
           /\ r.pc \in {"attempt", "recreate", "rClose", "rNil", "rNew", "fetchReturn"} => r.flushes = 1
           /\ r.fetchLog # <<>> => r.flushes = 1
           /\ r.pc = "fetchReturn" =>
                 /\ r.fetchLog # <<>>
                 /\ r.err = r.fetchLog[Len(r.fetchLog)]
                 /\ r.err = NilErr => r.fetch.fetchData = CachedRows(r.filePath, r.start, r.end)

\* Flush failed, the first Fetch attempt failed, the second one gave the
\* rows, and Flush was called once
C19_Witness ==
    \E t \in Tasks :
        /\ q[t].pc = "fetchReturn"
        /\ q[t].flushErr # NilErr
        /\ q[t].flushes = 1
        /\ Len(q[t].fetchLog) = 2
        /\ q[t].fetch.ok

\* the daemon branch of fetchRRDData has been entered and has not returned
InDaemonFetch(r) == r.pc \in {"flush", "attempt", "recreate", "rClose", "rNil", "rNew", "fetchReturn"}

\* C20: in a daemon fetch nothing is slept up to the first Fetch attempt,
\* 1 second in all up to the second and 1 + 4 seconds up to the third,
\* whatever the errors were and however the reconnects went; the sum is
\* never above 5 seconds, and every daemon fetch that is entered comes to
\* its end.
C20_BackoffSchedule ==
    /\ [](\A t \in Tasks :
             LET r == q[t]
                 n == Len(r.fetchLog)
             IN  /\ r.slept <= 5
                 /\ InDaemonFetch(r) =>
                       /\ n <= 3
                       /\ r.slept = IF n <= 1 THEN 0 ELSE IF n = 2 THEN 1 ELSE 5)
    /\ \A t \in Tasks : InDaemonFetch(q[t]) ~> ~InDaemonFetch(q[t])

\* three attempts after an error that is not transient and a transient one
\* whose reconnect was made: 5 seconds slept
C20_Witness ==
    \E t \in Tasks :
        /\ q[t].pc = "fetchReturn"
        /\ q[t].fetchLog = <<ErrOther, ErrTimeout, NilErr>>
        /\ q[t].reconnects = 1
        /\ q[t].slept = 5

\* the number of timeout or connection errors among the first k attempts
Transients(log, k) == Cardinality({i \in 1..k : i <= Len(log) /\ log[i] # NilErr /\ IsTransient(log[i])})

\* recreateRRDCachedClient has been called and has not returned
InRecreate(r) == r.pc \in {"recreate", "rClose", "rNil", "rNew"}

\* C21: in a daemon fetch a reconnect is under way only after a failed
\* Fetch attempt with a timeout or connection error that a further attempt
\* follows, so never after the third attempt; between the attempts and at
\* the return, the reconnects made are as many as the transient errors of
\* the first two attempts.
C21_ReconnectIffTransient ==
    \A t \in Tasks :
        LET r == q[t]
            n == Len(r.fetchLog)
        IN  /\ InRecreate(r) => n \in 1..2 /\ IsTransient(r.fetchLog[n])
            /\ r.pc \in {"attempt", "fetchReturn"} => r.reconnects = Transients(r.fetchLog, 2)

\* C22: after a reconnect that failed, the next Fetch attempt is made on a
\* client (it is not a call on a nil pointer), the handler does not panic,
\* and a fetch that returns an error has made its three attempts and
\* returns the last one's error.
C22_FailedReconnectStillRetries ==
    \A t \in Tasks :
        LET r == q[t] IN
           /\ r.panic # "nil client"
           /\ (r.pc = "attempt" /\ r.reconnects > 0) => rrdcachedClient # NIL
           /\ (r.pc = "fetchReturn" /\ r.err # NilErr) =>
                 Len(r.fetchLog) = 3 /\ r.err = r.fetchLog[3]

\* ------------------------------------------------------------------------
\* Properties of the refresh loop
\* ------------------------------------------------------------------------
\* C23: an Update() starts only when none is in progress (at startup, or
\* when the wait after the last one is over); the wait starts only when
\* Update() returns, after its store or after a failed walk; and after the
\* wait the next Update() runs.
C23_RefreshesDoNotOverlap ==
    /\ [][/\ refreshes' # refreshes =>
                (upc = "begin" /\ upc' = "walk" /\ refreshes' = refreshes + 1)
          /\ (upc' = "begin" /\ upc # "begin") => upc \in {"sleep", "aborted"}
          /\ (upc' = "sleep" /\ upc # "sleep") => (upc = "store" /\ items' = newItems /\ m' = "free")
          /\ (upc' = "aborted" /\ upc # "aborted") => upc = "walk"]_vars
    /\ (upc \in {"sleep", "aborted"} /\ refreshes < MaxRefresh) ~> (upc = "walk")

\* the second Update() is walking after the first was aborted
C23_Witness ==
    /\ upc = "walk"
    /\ refreshes = 2
    /\ walkIdx > 1
    /\ startItems.ref = NilSlice
    /\ complete = {}

\* ------------------------------------------------------------------------
\* Properties of the shared connection
\* ------------------------------------------------------------------------
\* the handlers whose Info, Flush or Fetch has not returned yet
InFlight == {t \in Tasks : q[t].calling}

\* some handler is inside recreateRRDCachedClient
Reconnecting == \E t \in Tasks : InRecreate(q[t]) /\ ~q[t].calling

\* C24: while no reconnect is in progress, at most one Info, Flush or
\* Fetch call is in flight on the connection.
C24_CallsSerialized == ~Reconnecting => Cardinality(InFlight) <= 1

\* ------------------------------------------------------------------------
\* Properties of the directory view
\* ------------------------------------------------------------------------
\* the segments of a name between its ":" characters
RECURSIVE Segments(_, _)
Segments(name, seg) ==
    IF name = <<>> THEN <<seg>>
    ELSE IF Head(name) = ":" THEN <<seg>> \o Segments(Tail(name), <<>>)
         ELSE Segments(Tail(name), Append(seg, Head(name)))

\* the segments of the file path of an identifier: all but its datasource
FileSegments(id) == SubSeq(Segments(id, <<>>), 1, Len(Segments(id, <<>>)) - 1)

\* the segments of the remainders of the file paths below P
Remainders(list, P) ==
    LET p == IF P = <<>> THEN <<>> ELSE Segments(P, <<>>)
    IN  {SubSeq(FileSegments(id), Len(p) + 1, Len(FileSegments(id))) :
            id \in {x \in Range(list) : /\ Len(FileSegments(x)) > Len(p)
                                        /\ SubSeq(FileSegments(x), 1, Len(p)) = p}}

\* C25: list(P) returns as directories the first segments of the
\* remainders with a further ":", and as files the non-empty remainders
\* without one; no name is twice in either list.
C25_DirectoryView ==
    (h.pc = "done" /\ h.op = "ls" /\ h.status = 200) =>
       /\ Range(h.result.Directories) = {r[1] : r \in {x \in Remainders(h.snapshot, h.target) : Len(x) > 1}}
       /\ Range(h.result.Files) =
             {r[1] : r \in {x \in Remainders(h.snapshot, h.target) : Len(x) = 1 /\ x[1] # <<>>}}
       /\ NoDuplicates(h.result.Directories)
       /\ NoDuplicates(h.result.Files)

\* list("s") on the tree where s:c has two datasources and t is both an
\* archive and a directory
C25_Witness ==
    /\ h.pc = "done" /\ h.op = "ls" /\ h.status = 200
    /\ h.snapshot = SnapshotTree
    /\ h.target = <<"s">>
    /\ h.result = [Directories |-> << <<"t">> >>, Files |-> << <<"c">>, <<"t">> >>]

\* ------------------------------------------------------------------------
\* Properties of the query response
\* ------------------------------------------------------------------------
\* C26: a target whose pattern matches no file adds no entry to the result
\* and changes neither the status nor the time range nor anything else the
\* later targets are answered from: the loop goes on with the next target;
\* and a decoded request that is answered is answered 200, with the entries
\* of the files that were fetched.
C26_NoMatchNoEntry ==
    /\ [][\A t \in Tasks :
             (q[t].pc = "file" /\ q[t].fileNameArray = <<>> /\ q'[t] # q[t]) =>
                /\ q'[t].pc = "target" /\ q'[t].ti = q[t].ti + 1
                /\ q'[t].result = q[t].result /\ q'[t].answered = q[t].answered
                /\ q'[t].status = q[t].status /\ q'[t].panic = q[t].panic
                /\ q'[t].from = q[t].from /\ q'[t].to = q[t].to]_vars
    /\ [](\A t \in Tasks :
             (q[t].pc = "done" /\ q[t].decoded = "ok") =>
                /\ q[t].status = 200
                /\ Len(q[t].result) = Len(q[t].answered)
                /\ \A i \in 1..Len(q[t].answered) :
                      \E k \in 1..Len(q[t].targets) :
                         q[t].answered[i].file \in Range(Glob(FileSearchPath(q[t].targets[k]))))

\* the request for c:y and a:x is answered with the one entry of d/a.rrd
C26_Witness ==
    \E t \in Tasks :
        /\ q[t].pc = "done" /\ q[t].status = 200
        /\ q[t].targets = << <<"c", ":", "y">>, <<"a", ":", "x">> >>
        /\ Len(q[t].result) = 1
        /\ q[t].result[1].Target = <<"a", ":", "x">>
        /\ q[t].result[1].DataPoints # <<>>

\* C27: the response of a decoded query request is a JSON array of
\* {target, datapoints} objects, the empty array when there is no entry.
C27_ResponseIsArray ==
    \A t \in Tasks :
        (q[t].pc = "done" /\ q[t].decoded = "ok") =>
           /\ q[t].response.json = "array"
           /\ q[t].response.array = q[t].result

\* ------------------------------------------------------------------------
\* Properties of the fetch range and of the data points
\* ------------------------------------------------------------------------
\* the end of the range for a file, from the request's range and the
\* file's last-update time alone
EndOf(from, to, lastUpdate) == IF to > lastUpdate /\ lastUpdate > from THEN lastUpdate ELSE to

\* C28: the start and the end passed to the fetch of a file are the
\* request's from, and the request's to clamped to the file's own
\* last-update time, whatever was processed before in the request.
C28_RangeOfFileAlone ==
    \A t \in Tasks :
        LET r == q[t] IN
           InFetch(r) =>
              /\ r.start = r.from
              /\ r.end = EndOf(r.from, r.reqTo, LastUpdate(r.filePath))

\* the rows 0 .. rowCnt-2 of the fetch that hold a number in column col
KeptRows(fetch, col) ==
    {i \in 0..(fetch.rowCnt - 2) :
        col < Len(fetch.fetchData[i + 1]) /\ ~IsNaN(fetch.fetchData[i + 1][col + 1])}

\* C29: the k-th data point of a result entry is that of the k-th fetched
\* row that gives one, row i, and carries the time fetchStart + i *
\* fetchStep in milliseconds, whatever rows were dropped before it; the
\* times of the points are strictly increasing.
C29_TimestampOfRow ==
    \A t \in Tasks :
        LET r == q[t]
            pts == LastEntry(r).DataPoints
            kept == KeptRows(r.fetch, r.dsIndex)
        IN  JustProjected(r) =>
               /\ Len(pts) = Cardinality(kept)
               /\ \A i \in kept :
                     LET k == Cardinality({j \in kept : j < i}) + 1 IN
                        /\ pts[k][1] = Times64(Multiplier, r.fetch.fetchData[i + 1][r.dsIndex + 1])
                        /\ pts[k][2] = (r.fetch.fetchStart + i * r.fetch.fetchStep) * 1000
               /\ \A k \in 1..(Len(pts) - 1) : pts[k][2] < pts[k + 1][2]

\* a row without a number was dropped ahead of a row that gave a point
C29_Witness ==
    \E t \in Tasks :
        LET r == q[t] IN
           /\ JustProjected(r)
           /\ \E i \in KeptRows(r.fetch, r.dsIndex) :
                 \E j \in 0..(i - 1) : j \notin KeptRows(r.fetch, r.dsIndex)
           /\ Len(LastEntry(r).DataPoints) >= 2

\* C30: the data points of a result entry labelled with datasource D are
\* those of the column of D in the fetched rows, and an entry for a file
\* without a datasource D has no data points.
C30_ColumnOfDatasource ==
    \A t \in Tasks :
        LET r == q[t]
            pts == LastEntry(r).DataPoints
        IN  JustProjected(r) =>
               IF HasDs(r.filePath, r.ds)
               THEN /\ r.dsIndex = ColumnOf(r.filePath, r.ds)
                    /\ \A k \in 1..Len(pts) :
                          \E i \in KeptRows(r.fetch, ColumnOf(r.filePath, r.ds)) :
                             pts[k] = <<Times64(Multiplier, r.fetch.fetchData[i + 1][ColumnOf(r.filePath, r.ds) + 1]),
                                        (r.fetch.fetchStart + i * r.fetch.fetchStep) * 1000>>
               ELSE pts = <<>>

\* ------------------------------------------------------------------------
\* Properties of the reconnect
\* ------------------------------------------------------------------------
\* C31: whatever reconnects were made, by one handler or by two at once,
\* at most one connection to the daemon is open, and an open one is the
\* one rrdcachedClient holds: every other one was closed.
C31_NoLeakedConnection ==
    /\ conns \in 0..1
    /\ conns = (IF rrdcachedClient = "open" THEN 1 ELSE 0)

\* both handlers have been through recreateRRDCachedClient during their
\* fetches, and the second one's NewClient gave the client now held
C31_Witness ==
    /\ \A t \in Tasks : q[t].reconnects > 0
    /\ rrdcachedMutex = "free"
    /\ rrdcachedClient = "open"
    /\ conns = 1

====
